---- MODULE Spec2Model ----
(***************************************************************************)
(* Server reflection service of grpc-go (reflection/serverreflection.go).  *)
(*                                                                         *)
(* One serverReflectionServer holds three unsynchronised Go maps           *)
(* (typeToNameMap, nameToTypeMap, typeToFileDescMap).  Every call of       *)
(* ServerReflectionInfo is one session: a goroutine running the            *)
(* Recv / dispatch / Send loop against those shared maps.  A session step  *)
(* is one access to a shared map together with the goroutine-local         *)
(* computation that follows it up to the next access.                      *)
(***************************************************************************)
EXTENDS Integers, Sequences, FiniteSets, TLC

(***************************************************************************)
(* Bounds of the model.                                                    *)
(***************************************************************************)
\* Number of concurrent sessions on the server under Spec.
NumSessions == 2
\* Requests delivered to the server, over all its sessions.
MaxReqs == 2

Sessions == 1..NumSessions

(***************************************************************************)
(* gRPC status codes used by the handler (google.golang.org/grpc/codes).   *)
(***************************************************************************)
InvalidArgument == 3
NotFound == 5
Unimplemented == 12

(***************************************************************************)
(* The process-wide protobuf registry and the server's service metadata.   *)
(* Both are filled at start-up and never change afterwards.                *)
(***************************************************************************)
NoType == "<nil>"
NoErr == [msg |-> "", arg |-> ""]
NoFd == <<>>
NoBytes == <<>>
NoEnc == [gzip |-> FALSE, pb |-> FALSE, file |-> "<nil>"]

Errorf(msg, arg) == [msg |-> msg, arg |-> arg]

\* An encoded descriptor: gzip container around a serialized
\* FileDescriptorProto.  gzip/pb tell whether each layer is well formed.
Enc(file, gzipOk, pbOk) == [gzip |-> gzipOk, pb |-> pbOk, file |-> file]

\* proto.FileDescriptor(filename): the registered encoding, or nil.
FileDescriptor(name) ==
    CASE name = "t.proto" -> Enc("t.proto", TRUE, TRUE)
      [] name = "e.proto" -> Enc("e.proto", TRUE, TRUE)
      [] name = "s.proto" -> Enc("s.proto", TRUE, TRUE)
      [] name = "b.proto" -> Enc("b.proto", FALSE, TRUE)
      [] name = "m.proto" -> Enc("m.proto", TRUE, FALSE)
      [] OTHER -> NoEnc

\* MessageType of a registry that knows no message type.
MessageTypeNone(name) == NoType

\* proto.MessageType(name).Elem(): the Go type registered under name.
Types == {"T", "E", "B", "M"}
MessageType(name) ==
    CASE name = "pkg.T" -> "T"
      [] name = "pkg.E" -> "E"
      [] name = "pkg.B" -> "B"
      [] name = "pkg.M" -> "M"
      [] OTHER -> NoType

\* Whether *st implements protoMessage (has a Descriptor method).
\* int32 is the value type of a scalar extension.
HasDescriptor(st) == st \in Types

\* m.Descriptor(): the encoding of the file that declares the type.
Descriptor(st) ==
    CASE st = "T" -> Enc("t.proto", TRUE, TRUE)
      [] st = "E" -> Enc("e.proto", TRUE, TRUE)
      [] st = "B" -> Enc("b.proto", FALSE, TRUE)
      [] st = "M" -> Enc("m.proto", TRUE, FALSE)

\* Whether *st implements proto.Message.
IsProtoMessage(st) == st \in Types

\* proto.RegisteredExtensions(m): extension number -> reflect.TypeOf(
\* desc.ExtensionType).Elem().
RegisteredExtensions(st) ==
    IF st = "T" THEN [id \in {5, 7} |-> IF id = 5 THEN "E" ELSE "int32"]
    ELSE [id \in {} |-> NoType]

\* grpc.Server.Metadata(name): nil, a []byte blob, or a value of another type.
\* The server also has services registered under the names pkg.T and pkg.B,
\* which the protobuf registry knows as message types.
Metadata(name) ==
    CASE name \in {"pkg.Svc", "pkg.T", "pkg.B"} ->
            [present |-> TRUE, isBytes |-> TRUE, enc |-> Enc("s.proto", TRUE, TRUE)]
      [] name = "pkg.Raw" ->
            [present |-> TRUE, isBytes |-> FALSE, enc |-> NoEnc]
      [] OTHER -> [present |-> FALSE, isBytes |-> FALSE, enc |-> NoEnc]

(***************************************************************************)
(* Descriptor decoder.                                                     *)
(***************************************************************************)
\* decompress: the gunzipped bytes, or nil when the container is bad.
decompress(b) == IF b.gzip THEN <<b.pb, b.file>> ELSE NoBytes

\* proto.Unmarshal(raw, fd)
Unmarshal(raw) ==
    IF raw[1] THEN [fd |-> <<"FileDescriptorProto", raw[2]>>, err |-> NoErr]
    ELSE [fd |-> NoFd, err |-> Errorf("proto: bad wire format", "")]

\* decodeFileDesc that hands back whatever it has when the content is
\* malformed or cannot be decompressed.
decodeFileDescPartial(enc) ==
    [fd |-> <<"FileDescriptorProto", enc.file>>, err |-> NoErr]

decodeFileDesc(enc) ==
    LET raw == decompress(enc) IN
    IF raw = NoBytes
    THEN [fd |-> NoFd, err |-> Errorf("failed to decompress enc", "")]
    ELSE LET u == Unmarshal(raw) IN
         IF u.err # NoErr
         THEN [fd |-> NoFd, err |-> Errorf("bad descriptor", u.err.msg)]
         ELSE [fd |-> u.fd, err |-> NoErr]

\* proto.Marshal(fd): the wire encoding of a decoded descriptor.
Marshal(fd) == <<"wire", fd[2]>>

(***************************************************************************)
(* Protocol messages (grpc_reflection_v1alpha).                            *)
(***************************************************************************)
FileByFilename == "FileByFilename"
FileContainingSymbol == "FileContainingSymbol"
FileContainingExtension == "FileContainingExtension"
AllExtensionNumbersOfType == "AllExtensionNumbersOfType"
ListServices == "ListServices"
\* MessageRequest left unset (or of a kind this server does not know).
NoKind == "<nil>"

\* ServerReflectionRequest: Host and the MessageRequest oneof.  name is the
\* string of the oneof (file name, symbol, containing type, type name), ext
\* the ExtensionNumber of a FileContainingExtension request.
Request(host, kind, name, ext) ==
    [host |-> host, kind |-> kind, name |-> name, ext |-> ext]
NoReq == Request("", "<none>", "", 0)

Hosts == {"h1", "h2"}

\* Requests a client may send in the single-session specification.
Requests ==
    {Request(h, FileByFilename, n, 0) :
        h \in Hosts, n \in {"t.proto", "b.proto", "m.proto", "none"}}
    \cup {Request(h, FileContainingSymbol, n, 0) :
        h \in Hosts, n \in {"pkg.T", "pkg.B", "pkg.M", "pkg.Svc", "pkg.Raw", "none"}}
    \cup {Request(h, FileContainingExtension, n, e) :
        h \in Hosts, n \in {"pkg.T", "none"}, e \in {5, 7, 9}}
    \cup {Request(h, AllExtensionNumbersOfType, n, 0) :
        h \in Hosts, n \in {"pkg.T", "pkg.E", "none"}}
    \cup {Request(h, ListServices, "", 0) : h \in Hosts}
    \cup {Request(h, NoKind, "", 0) : h \in Hosts}

\* Requests the clients send in the concurrent specification and in the
\* fair single-session specification.
ConcRequests ==
    {Request("h1", FileByFilename, "t.proto", 0),
     Request("h1", FileContainingSymbol, "pkg.T", 0),
     Request("h1", FileContainingSymbol, "pkg.B", 0),
     Request("h1", FileContainingExtension, "pkg.T", 5),
     Request("h1", AllExtensionNumbersOfType, "pkg.T", 0),
     Request("h1", ListServices, "", 0),
     Request("h1", NoKind, "", 0)}

\* AllExtensionNumbersResponse that reports a type without extensions as an
\* error.
AllExtensionNumbersOrError(name, nums) ==
    IF nums = <<>>
    THEN [tag |-> "ErrorResponse", ErrorCode |-> NotFound,
          ErrorMessage |-> Errorf("no extensions", name)]
    ELSE [tag |-> "AllExtensionNumbersResponse",
          BaseTypeName |-> name, ExtensionNumber |-> nums]

NoResponse == [tag |-> "<nil>"]
ErrorResponse(code, err) ==
    [tag |-> "ErrorResponse", ErrorCode |-> code, ErrorMessage |-> err]
\* FileDescriptorResponse that drops the descriptor it was given.
FileDescriptorResponseEmpty(b) ==
    [tag |-> "FileDescriptorResponse", FileDescriptorProto |-> <<>>]
FileDescriptorResponse(b) ==
    [tag |-> "FileDescriptorResponse", FileDescriptorProto |-> <<b>>]
AllExtensionNumbersResponse(name, nums) ==
    [tag |-> "AllExtensionNumbersResponse",
     BaseTypeName |-> name, ExtensionNumber |-> nums]

\* NewResponse that forgets to copy the host.
NewResponseNoHost(req) ==
    [ValidHost |-> "", OriginalRequest |-> req,
     MessageResponse |-> NoResponse]

\* out := &ServerReflectionResponse{ValidHost: in.Host, OriginalRequest: in}
NewResponse(req) ==
    [ValidHost |-> req.host, OriginalRequest |-> req,
     MessageResponse |-> NoResponse]

\* WireResponse reporting a failed lookup under another status code.
WireResponseWrongCode(b, err) ==
    IF err # NoErr THEN ErrorResponse(InvalidArgument, err)
    ELSE FileDescriptorResponse(b)

\* The if err != nil { ErrorResponse } else { FileDescriptorResponse } blocks.
WireResponse(b, err) ==
    IF err # NoErr THEN ErrorResponse(NotFound, err)
    ELSE FileDescriptorResponse(b)

\* Errors a stream's Recv or Send may return besides io.EOF.
TransportError(e) == [transport |-> e]
StreamErrs == {TransportError("Canceled"), TransportError("Unavailable")}
\* io.EOF
EOF == TransportError("EOF")

(***************************************************************************)
(* State.                                                                  *)
(***************************************************************************)
VARIABLES
    typeToNameMap,      \* serverReflectionServer.typeToNameMap
    nameToTypeMap,      \* serverReflectionServer.nameToTypeMap
    typeToFileDescMap,  \* serverReflectionServer.typeToFileDescMap
    fatal,              \* the Go runtime threw on a concurrent map access
    pc,                 \* pc[s]: where session s stands in its loop
    in,                 \* in[s]: the request being handled
    out,                \* out[s]: the response being built
    loc,                \* loc[s]: locals of the resolver calls in progress
    ret,                \* ret[s]: what ServerReflectionInfo returned
    streamErr,          \* streamErr[s]: what the stream's Recv/Send returned last
    received,           \* received[s]: requests Recv has delivered, in order
    sent                \* sent[s]: responses Send has accepted, in order

cache == <<typeToNameMap, nameToTypeMap, typeToFileDescMap>>
vars == <<typeToNameMap, nameToTypeMap, typeToFileDescMap, fatal,
          pc, in, out, loc, ret, streamErr, received, sent>>

EmptyMap == [k \in {} |-> k]

\* Put on a cache that holds one entry and evicts the old one.
PutEvicting(m, k, v) == [x \in {k} |-> v]

\* m[k] = v on a Go map.
Put(m, k, v) == [x \in DOMAIN m \cup {k} |-> IF x = k THEN v ELSE m[x]]

\* st, ok := s.nameToTypeMap[name]
LookupType(name) ==
    IF name \in DOMAIN nameToTypeMap
    THEN [ok |-> TRUE, st |-> nameToTypeMap[name]]
    ELSE [ok |-> FALSE, st |-> NoType]

\* LookupFileDesc that never finds the entry.
LookupFileDescMiss(st) == [ok |-> FALSE, fd |-> NoFd]

\* fd, ok := s.typeToFileDescMap[st]
LookupFileDesc(st) ==
    IF st \in DOMAIN typeToFileDescMap
    THEN [ok |-> TRUE, fd |-> typeToFileDescMap[st]]
    ELSE [ok |-> FALSE, fd |-> NoFd]

\* Return value of ServerReflectionInfo: still running, nil, or an error.
Running == [returned |-> FALSE, err |-> NoErr]
Returned(err) == [returned |-> TRUE, err |-> err]
\* grpc.Errorf(code, format, a)
RpcErrorf(code, msg, arg) == [code |-> code, msg |-> msg, arg |-> arg]

NoStreamErr == [op |-> "", err |-> NoErr]

\* Locals of typeForName / fileDescForType / fileDescContainingExtension for
\* the request in progress.  fdtArg and fdtRet are the argument of the
\* running fileDescForType call and the call site it returns to.
\* calledMessageType, ranDecoder, missed, calledMetadata and prior record
\* what the request did: whether proto.MessageType was called, whether
\* decodeFileDesc ran, whether the name missed nameToTypeMap, whether
\* s.s.Metadata was called, the error typeForName returned, and the results
\* earlier resolutions of the same name produced.
LocInit ==
    [st |-> NoType, fd |-> NoFd, err |-> NoErr, extT |-> NoType,
     fdtArg |-> NoType, fdtRet |-> "",
     calledMessageType |-> FALSE, ranDecoder |-> FALSE, missed |-> FALSE,
     calledMetadata |-> FALSE, tfnErr |-> NoErr, prior |-> {}]

Init ==
    /\ typeToNameMap = EmptyMap
    /\ nameToTypeMap = EmptyMap
    /\ typeToFileDescMap = EmptyMap
    /\ fatal = FALSE
    /\ pc = [s \in Sessions |-> "Recv"]
    /\ in = [s \in Sessions |-> NoReq]
    /\ out = [s \in Sessions |-> NewResponse(NoReq)]
    /\ loc = [s \in Sessions |-> LocInit]
    /\ ret = [s \in Sessions |-> Running]
    /\ streamErr = [s \in Sessions |-> NoStreamErr]
    /\ received = [s \in Sessions |-> <<>>]
    /\ sent = [s \in Sessions |-> <<>>]

(***************************************************************************)
(* Resolver: the goroutine-local parts.                                    *)
(***************************************************************************)
fileDescWireFormatByFilename(name) ==
    LET enc == FileDescriptor(name) IN
    IF enc = NoEnc
    THEN [b |-> NoBytes, err |-> Errorf("unknown file", name)]
    ELSE LET d == decodeFileDesc(enc) IN
         IF d.err # NoErr
         THEN [b |-> NoBytes, err |-> d.err]
         ELSE [b |-> Marshal(d.fd), err |-> NoErr]

\* The tail of fileDescWireFormatContainingSymbol: marshal fd if there is
\* one, "unknown symbol" otherwise.
SymbolWireFormat(name, fd) ==
    IF fd # NoFd
    THEN [b |-> Marshal(fd), err |-> NoErr]
    ELSE [b |-> NoBytes, err |-> Errorf("unknown symbol", name)]

\* SymbolFromMetadata that gives up without asking the metadata store.
SymbolFromMetadataSkipped(name) ==
    SymbolWireFormat(name, NoFd) @@ [decoded |-> FALSE, called |-> FALSE]

\* The else branch of fileDescWireFormatContainingSymbol: name is no type
\* name, so ask the server's service metadata.  decoded and called tell
\* whether decodeFileDesc ran and whether s.s.Metadata was called.
SymbolFromMetadata(name) ==
    LET meta == Metadata(name) IN
    IF meta.present /\ meta.isBytes
    THEN LET d == decodeFileDesc(meta.enc) IN
         IF d.err # NoErr
         THEN [b |-> NoBytes, err |-> d.err, decoded |-> TRUE, called |-> TRUE]
         ELSE SymbolWireFormat(name, d.fd) @@ [decoded |-> TRUE, called |-> TRUE]
    ELSE SymbolWireFormat(name, NoFd) @@ [decoded |-> FALSE, called |-> TRUE]

\* ExtensionType that settles for the first registered extension of the type
\* whatever number was asked for.
ExtensionTypeAnyNumber(st, ext) ==
    IF ~IsProtoMessage(st)
    THEN [extT |-> NoType,
          err |-> Errorf("failed to create message from type", st)]
    ELSE IF DOMAIN RegisteredExtensions(st) = {}
    THEN [extT |-> NoType,
          err |-> Errorf("failed to find registered extension for extension number",
                         ToString(ext))]
    ELSE [extT |-> RegisteredExtensions(st)[
                       CHOOSE id \in DOMAIN RegisteredExtensions(st) :
                           \A other \in DOMAIN RegisteredExtensions(st) : id <= other],
          err |-> NoErr]

\* The search loop of fileDescContainingExtension: the value type of the
\* extension of st numbered ext.
ExtensionType(st, ext) ==
    IF ~IsProtoMessage(st)
    THEN [extT |-> NoType,
          err |-> Errorf("failed to create message from type", st)]
    ELSE IF ext \notin DOMAIN RegisteredExtensions(st)
    THEN [extT |-> NoType,
          err |-> Errorf("failed to find registered extension for extension number",
                         ToString(ext))]
    ELSE [extT |-> RegisteredExtensions(st)[ext], err |-> NoErr]

\* The orders in which ranging over a Go map may visit the keys in S.
Orderings(S) ==
    {q \in [1..Cardinality(S) -> S] :
        \A i, j \in 1..Cardinality(S) : q[i] = q[j] => i = j}

Respond(s, l, payload) ==
    [pc |-> "Send", out |-> [out[s] EXCEPT !.MessageResponse = payload],
     loc |-> l]
Goto(s, label, l) == [pc |-> label, out |-> out[s], loc |-> l]

\* typeForName returned (st, err) to its caller in the handler of in[s]:
\* what the caller does up to its next access to a shared map.
TypeForNameReturn(s, l, st, err) ==
    LET req == in[s] IN
    CASE req.kind = FileContainingSymbol ->
            IF err = NoErr
            THEN Goto(s, "fdtCheck",
                      [l EXCEPT !.st = st, !.fdtArg = st, !.fdtRet = "symbol"])
            ELSE LET r == SymbolFromMetadata(req.name) IN
                 Respond(s, [l EXCEPT !.err = r.err,
                                      !.ranDecoder = l.ranDecoder \/ r.decoded,
                                      !.calledMetadata = r.called],
                         WireResponse(r.b, r.err))
      [] req.kind = FileContainingExtension ->
            IF err # NoErr
            THEN Respond(s, [l EXCEPT !.err = err], WireResponse(NoBytes, err))
            ELSE LET x == ExtensionType(st, req.ext) IN
                 IF x.err # NoErr
                 THEN Respond(s, [l EXCEPT !.st = st, !.err = x.err],
                              WireResponse(NoBytes, x.err))
                 ELSE Goto(s, "fceCheck", [l EXCEPT !.st = st, !.extT = x.extT])
      [] req.kind = AllExtensionNumbersOfType ->
            IF err # NoErr
            THEN Respond(s, [l EXCEPT !.err = err], ErrorResponse(NotFound, err))
            ELSE Goto(s, "allExt", [l EXCEPT !.st = st])

\* fileDescForType returned (fd, err) to the call site l.fdtRet.
FileDescForTypeReturn(s, l, fd, err) ==
    CASE l.fdtRet = "typeForName" ->
            IF err = NoErr
            THEN Goto(s, "tfnStore", [l EXCEPT !.fd = fd])
            ELSE TypeForNameReturn(s, l, l.st, NoErr)
      [] l.fdtRet = "symbol" ->
            IF err # NoErr
            THEN Respond(s, [l EXCEPT !.err = err], WireResponse(NoBytes, err))
            ELSE LET r == SymbolWireFormat(in[s].name, fd) IN
                 Respond(s, [l EXCEPT !.fd = fd, !.err = r.err],
                         WireResponse(r.b, r.err))
      [] l.fdtRet = "extension" ->
            IF err # NoErr
            THEN Respond(s, [l EXCEPT !.err = err], WireResponse(NoBytes, err))
            ELSE Respond(s, [l EXCEPT !.fd = fd],
                         WireResponse(Marshal(fd), NoErr))

(***************************************************************************)
(* Session loop: ServerReflectionInfo.                                     *)
(***************************************************************************)
TotalReceived == LET RECURSIVE Sum(_)
                     Sum(n) == IF n = 0 THEN 0 ELSE Len(received[n]) + Sum(n - 1)
                 IN Sum(NumSessions)

\* The wire encodings that resolutions of type name n have returned so far
\* (responses already sent, and responses complete and about to be sent).
Resolved(n) ==
    {sent[t][i].MessageResponse.FileDescriptorProto[1] :
        <<t, i>> \in {x \in Sessions \X (1..MaxReqs) :
            /\ x[2] <= Len(sent[x[1]])
            /\ sent[x[1]][x[2]].OriginalRequest.kind = FileContainingSymbol
            /\ sent[x[1]][x[2]].OriginalRequest.name = n
            /\ sent[x[1]][x[2]].MessageResponse.tag = "FileDescriptorResponse"}}
    \cup
    {out[t].MessageResponse.FileDescriptorProto[1] :
        t \in {x \in Sessions :
            /\ pc[x] = "Send"
            /\ in[x].kind = FileContainingSymbol
            /\ in[x].name = n
            /\ out[x].MessageResponse.tag = "FileDescriptorResponse"}}

\* Dispatch with a case that leaves the switch without a response: the loop
\* reads the next request at once.
DispatchSkipsSend(req) ==
    CASE req.kind = FileByFilename -> "byFilename"
      [] req.kind \in {FileContainingSymbol, FileContainingExtension,
                       AllExtensionNumbersOfType} -> "tfnCheck"
      [] req.kind = ListServices -> "Recv"
      [] OTHER -> "invalid"

\* Dispatch answering a request of unknown kind with an error response
\* instead of ending the session.
DispatchAnswersUnknown(req) ==
    CASE req.kind = FileByFilename -> "byFilename"
      [] req.kind \in {FileContainingSymbol, FileContainingExtension,
                       AllExtensionNumbersOfType} -> "tfnCheck"
      [] OTHER -> "listServices"

\* Dispatch with a case for ListServices that never gets to the send.
DispatchHangsOnListServices(req) ==
    CASE req.kind = FileByFilename -> "byFilename"
      [] req.kind \in {FileContainingSymbol, FileContainingExtension,
                       AllExtensionNumbersOfType} -> "tfnCheck"
      [] req.kind = ListServices -> "hung"
      [] OTHER -> "invalid"

\* The label the handler of a request starts at.
Dispatch(req) ==
    CASE req.kind = FileByFilename -> "byFilename"
      [] req.kind \in {FileContainingSymbol, FileContainingExtension,
                       AllExtensionNumbersOfType} -> "tfnCheck"
      [] req.kind = ListServices -> "listServices"
      [] OTHER -> "invalid"

Update(f, s, v) == [f EXCEPT ![s] = v]

\* Session s moves as r says; everything else of the sessions is unchanged.
Move(s, r) ==
    /\ pc' = Update(pc, s, r.pc)
    /\ out' = Update(out, s, r.out)
    /\ loc' = Update(loc, s, r.loc)
    /\ UNCHANGED <<fatal, in, ret, streamErr, received, sent>>

\* in, err := stream.Recv() delivers req; out is allocated and the switch
\* selects the handler.
Recv(s, req) ==
    /\ ~fatal
    /\ pc[s] = "Recv"
    /\ TotalReceived < MaxReqs
    /\ received' = Update(received, s, Append(received[s], req))
    /\ in' = Update(in, s, req)
    /\ out' = Update(out, s, NewResponse(req))
    /\ loc' = Update(loc, s,
           [LocInit EXCEPT !.prior =
               IF req.kind = FileContainingSymbol /\ MessageType(req.name) # NoType
               THEN Resolved(req.name) ELSE {}])
    /\ pc' = Update(pc, s, Dispatch(req))
    /\ UNCHANGED <<cache, fatal, ret, streamErr, sent>>

\* ReturnOnRecvError treating every read error like the end of the stream.
ReturnNilOnRecvError(err) == Returned(NoErr)

\* if err == io.EOF { return nil }; if err != nil { return err }
ReturnOnRecvError(err) ==
    IF err = EOF THEN Returned(NoErr) ELSE Returned(err)

\* stream.Recv() returns io.EOF: return nil.
RecvEOF(s) ==
    /\ ~fatal
    /\ pc[s] = "Recv"
    /\ streamErr' = Update(streamErr, s, [op |-> "Recv", err |-> EOF])
    /\ ret' = Update(ret, s, ReturnOnRecvError(EOF))
    /\ pc' = Update(pc, s, "Done")
    /\ UNCHANGED <<cache, fatal, in, out, loc, received, sent>>

\* stream.Recv() returns another error: return err.
RecvErr(s, e) ==
    /\ ~fatal
    /\ pc[s] = "Recv"
    /\ streamErr' = Update(streamErr, s, [op |-> "Recv", err |-> e])
    /\ ret' = Update(ret, s, ReturnOnRecvError(e))
    /\ pc' = Update(pc, s, "Done")
    /\ UNCHANGED <<cache, fatal, in, out, loc, received, sent>>

\* HandleFileByFilename that keeps the descriptor it decoded in
\* typeToFileDescMap, under the file's name.
HandleFileByFilenameCaching(s) ==
    /\ ~fatal
    /\ pc[s] = "byFilename"
    /\ LET r == fileDescWireFormatByFilename(in[s].name) IN
       /\ Move(s, Respond(s, [loc[s] EXCEPT !.err = r.err,
                                            !.ranDecoder =
                                                FileDescriptor(in[s].name) # NoEnc],
                          WireResponse(r.b, r.err)))
       /\ typeToFileDescMap' =
              IF r.err = NoErr
              THEN Put(typeToFileDescMap, in[s].name,
                       decodeFileDesc(FileDescriptor(in[s].name)).fd)
              ELSE typeToFileDescMap
    /\ UNCHANGED <<typeToNameMap, nameToTypeMap>>

\* case *rpb.ServerReflectionRequest_FileByFilename
HandleFileByFilename(s) ==
    /\ ~fatal
    /\ pc[s] = "byFilename"
    /\ LET r == fileDescWireFormatByFilename(in[s].name) IN
       Move(s, Respond(s, [loc[s] EXCEPT !.err = r.err,
                                         !.ranDecoder =
                                             FileDescriptor(in[s].name) # NoEnc],
                       WireResponse(r.b, r.err)))
    /\ UNCHANGED cache

\* ListServicesResponse reported like a failed lookup.
ListServicesNotFound ==
    ErrorResponse(NotFound, Errorf("list_services not implemented", ""))

\* The payload of the answer to a ListServices request.
ListServicesResponse ==
    ErrorResponse(Unimplemented, Errorf("list_services not implemented", ""))

\* case *rpb.ServerReflectionRequest_ListServices
HandleListServices(s) ==
    /\ ~fatal
    /\ pc[s] = "listServices"
    /\ Move(s, Respond(s, loc[s], ListServicesResponse))
    /\ UNCHANGED cache

\* default: return grpc.Errorf(codes.InvalidArgument, ...)
HandleInvalid(s) ==
    /\ ~fatal
    /\ pc[s] = "invalid"
    /\ ret' = Update(ret, s,
           Returned(RpcErrorf(InvalidArgument, "invalid MessageRequest", in[s].kind)))
    /\ pc' = Update(pc, s, "Done")
    /\ in' = Update(in, s, NoReq)
    /\ out' = Update(out, s, NewResponse(NoReq))
    /\ loc' = Update(loc, s, LocInit)
    /\ UNCHANGED <<cache, fatal, streamErr, received, sent>>

\* typeForName, from the cache check to the registry lookup.
TypeForNameCheck(s) ==
    /\ ~fatal
    /\ pc[s] = "tfnCheck"
    /\ LET name == in[s].name
           hit == LookupType(name)
           miss == [loc[s] EXCEPT !.calledMessageType = TRUE, !.missed = TRUE]
           st == MessageType(name)
       IN  Move(s, IF hit.ok
                   THEN TypeForNameReturn(s, loc[s], hit.st, NoErr)
                   ELSE IF st = NoType
                   THEN TypeForNameReturn(s, [miss EXCEPT !.tfnErr =
                                                 Errorf("unknown type", name)],
                                          NoType, Errorf("unknown type", name))
                   ELSE Goto(s, "tfnPutTypeToName", [miss EXCEPT !.st = st]))
    /\ UNCHANGED cache

\* s.typeToNameMap[st] = name
TypeForNamePutTypeToName(s) ==
    /\ ~fatal
    /\ pc[s] = "tfnPutTypeToName"
    /\ typeToNameMap' = Put(typeToNameMap, loc[s].st, in[s].name)
    /\ Move(s, Goto(s, "tfnPutNameToType", loc[s]))
    /\ UNCHANGED <<nameToTypeMap, typeToFileDescMap>>

\* TypeForNamePutNameToType that goes on without writing nameToTypeMap.
TypeForNameSkipNameToType(s) ==
    /\ ~fatal
    /\ pc[s] = "tfnPutNameToType"
    /\ Move(s, Goto(s, "fdtCheck",
                    [loc[s] EXCEPT !.fdtArg = loc[s].st, !.fdtRet = "typeForName"]))
    /\ UNCHANGED cache

\* s.nameToTypeMap[name] = st, then the call s.fileDescForType(st)
TypeForNamePutNameToType(s) ==
    /\ ~fatal
    /\ pc[s] = "tfnPutNameToType"
    /\ nameToTypeMap' = Put(nameToTypeMap, in[s].name, loc[s].st)
    /\ Move(s, Goto(s, "fdtCheck",
                    [loc[s] EXCEPT !.fdtArg = loc[s].st, !.fdtRet = "typeForName"]))
    /\ UNCHANGED <<typeToNameMap, typeToFileDescMap>>

\* fileDescForType, from its entry to the decode after a cache miss.
FileDescForTypeCheck(s) ==
    /\ ~fatal
    /\ pc[s] = "fdtCheck"
    /\ LET st == loc[s].fdtArg
           hit == LookupFileDesc(st)
           d == decodeFileDesc(Descriptor(st))
           ran == [loc[s] EXCEPT !.ranDecoder = TRUE]
       IN  Move(s, IF ~HasDescriptor(st)
                   THEN FileDescForTypeReturn(s, loc[s], NoFd,
                            Errorf("failed to create message from type", st))
                   ELSE IF hit.ok
                   THEN FileDescForTypeReturn(s, loc[s], hit.fd, NoErr)
                   ELSE IF d.err # NoErr
                   THEN FileDescForTypeReturn(s, ran, NoFd, d.err)
                   ELSE Goto(s, "fdtPut", [ran EXCEPT !.fd = d.fd]))
    /\ UNCHANGED cache

\* FileDescForTypePut that files the descriptor under the type the request
\* named instead of the type it was decoded for.
FileDescForTypePutUnderSt(s) ==
    /\ ~fatal
    /\ pc[s] = "fdtPut"
    /\ typeToFileDescMap' = Put(typeToFileDescMap, loc[s].st, loc[s].fd)
    /\ Move(s, FileDescForTypeReturn(s, loc[s], loc[s].fd, NoErr))
    /\ UNCHANGED <<typeToNameMap, nameToTypeMap>>

\* s.typeToFileDescMap[st] = fd; return fd, idxs, nil
FileDescForTypePut(s) ==
    /\ ~fatal
    /\ pc[s] = "fdtPut"
    /\ typeToFileDescMap' = Put(typeToFileDescMap, loc[s].fdtArg, loc[s].fd)
    /\ Move(s, FileDescForTypeReturn(s, loc[s], loc[s].fd, NoErr))
    /\ UNCHANGED <<typeToNameMap, nameToTypeMap>>

\* typeForName after fileDescForType succeeded:
\* s.typeToFileDescMap[st] = fd; return st, nil
TypeForNameStore(s) ==
    /\ ~fatal
    /\ pc[s] = "tfnStore"
    /\ typeToFileDescMap' = Put(typeToFileDescMap, loc[s].st, loc[s].fd)
    /\ Move(s, TypeForNameReturn(s, loc[s], loc[s].st, NoErr))
    /\ UNCHANGED <<typeToNameMap, nameToTypeMap>>

\* fileDescContainingExtension: the cache check for the extension's type,
\* then either the marshalled hit or the call s.fileDescForType(extT).
FileDescContainingExtensionCheck(s) ==
    /\ ~fatal
    /\ pc[s] = "fceCheck"
    /\ LET hit == LookupFileDesc(loc[s].extT) IN
       Move(s, IF hit.ok
               THEN Respond(s, [loc[s] EXCEPT !.fd = hit.fd],
                            WireResponse(Marshal(hit.fd), NoErr))
               ELSE Goto(s, "fdtCheck",
                         [loc[s] EXCEPT !.fdtArg = loc[s].extT,
                                        !.fdtRet = "extension"]))
    /\ UNCHANGED cache

\* allExtensionNumbersForType: range over the registered extensions, in the
\* order the Go map yields them.
AllExtensionNumbersForType(s) ==
    /\ ~fatal
    /\ pc[s] = "allExt"
    /\ IF ~IsProtoMessage(loc[s].st)
       THEN LET err == Errorf("failed to create message from type", loc[s].st) IN
            Move(s, Respond(s, [loc[s] EXCEPT !.err = err],
                            ErrorResponse(NotFound, err)))
       ELSE \E nums \in Orderings(DOMAIN RegisteredExtensions(loc[s].st)) :
            Move(s, Respond(s, loc[s],
                            AllExtensionNumbersResponse(in[s].name, nums)))
    /\ UNCHANGED cache

\* stream.Send(out) succeeds; the loop goes back to Recv and in, out and the
\* resolver's locals go out of scope.
Send(s) ==
    /\ ~fatal
    /\ pc[s] = "Send"
    /\ sent' = Update(sent, s, Append(sent[s], out[s]))
    /\ pc' = Update(pc, s, "Recv")
    /\ in' = Update(in, s, NoReq)
    /\ out' = Update(out, s, NewResponse(NoReq))
    /\ loc' = Update(loc, s, LocInit)
    /\ UNCHANGED <<cache, fatal, ret, streamErr, received>>

\* stream.Send(out) fails: return err (the locals go out of scope).
SendErr(s, e) ==
    /\ ~fatal
    /\ pc[s] = "Send"
    /\ streamErr' = Update(streamErr, s, [op |-> "Send", err |-> e])
    /\ ret' = Update(ret, s, Returned(e))
    /\ pc' = Update(pc, s, "Done")
    /\ in' = Update(in, s, NoReq)
    /\ out' = Update(out, s, NewResponse(NoReq))
    /\ loc' = Update(loc, s, LocInit)
    /\ UNCHANGED <<cache, fatal, received, sent>>

(***************************************************************************)
(* Unsynchronised access to the shared maps.  mu is declared but never     *)
(* locked, so the accesses of two sessions are ordered by nothing.         *)
(***************************************************************************)
\* The map access session s performs in its next step: <<map, mode>>.
Access(s) ==
    CASE pc[s] = "tfnCheck" -> <<"nameToTypeMap", "read">>
      [] pc[s] = "tfnPutTypeToName" -> <<"typeToNameMap", "write">>
      [] pc[s] = "tfnPutNameToType" -> <<"nameToTypeMap", "write">>
      [] pc[s] = "fdtCheck" /\ HasDescriptor(loc[s].fdtArg) ->
            <<"typeToFileDescMap", "read">>
      [] pc[s] = "fdtPut" -> <<"typeToFileDescMap", "write">>
      [] pc[s] = "tfnStore" -> <<"typeToFileDescMap", "write">>
      [] pc[s] = "fceCheck" -> <<"typeToFileDescMap", "read">>
      [] OTHER -> <<"", "">>

\* Two sessions are about to access the same map and one of them writes.
Conflict(s, t) ==
    /\ s # t
    /\ Access(s)[1] # ""
    /\ Access(s)[1] = Access(t)[1]
    /\ "write" \in {Access(s)[2], Access(t)[2]}

\* The accesses overlap and the Go runtime detects it ("fatal error:
\* concurrent map writes" / "concurrent map read and map write"): the
\* process dies.  When it does not fire, the accesses take effect one after
\* the other, in either order.
RaceFault ==
    /\ ~fatal
    /\ \E s, t \in Sessions : Conflict(s, t)
    /\ fatal' = TRUE
    /\ UNCHANGED <<cache, pc, in, out, loc, ret, streamErr, received, sent>>

\* The steps of session s between receiving a request and sending its
\* response.
Handle(s) ==
    \/ HandleFileByFilename(s)
    \/ HandleListServices(s)
    \/ HandleInvalid(s)
    \/ TypeForNameCheck(s)
    \/ TypeForNamePutTypeToName(s)
    \/ TypeForNamePutNameToType(s)
    \/ FileDescForTypeCheck(s)
    \/ FileDescForTypePut(s)
    \/ TypeForNameStore(s)
    \/ FileDescContainingExtensionCheck(s)
    \/ AllExtensionNumbersForType(s)

\* Several sessions against one server.  A session whose stream fails stops
\* like one whose stream ends, so the streams here only end.
Next ==
    \/ \E s \in Sessions : \E req \in ConcRequests : Recv(s, req)
    \/ \E s \in Sessions : RecvEOF(s)
    \/ \E s \in Sessions : Handle(s)
    \/ \E s \in Sessions : Send(s)
    \/ RaceFault

Spec == Init /\ [][Next]_vars

\* One session alone on the server, with the full range of requests and of
\* stream failures.
NextSession ==
    \/ \E req \in Requests : Recv(1, req)
    \/ RecvEOF(1)
    \/ \E e \in StreamErrs : RecvErr(1, e)
    \/ Handle(1)
    \/ Send(1)
    \/ \E e \in StreamErrs : SendErr(1, e)

SpecSession == Init /\ [][NextSession]_vars

\* One session fed from ConcRequests, one request of each kind the loop
\* treats differently.
NextSessionFair ==
    \/ \E req \in ConcRequests : Recv(1, req)
    \/ RecvEOF(1)
    \/ \E e \in StreamErrs : RecvErr(1, e)
    \/ Handle(1)
    \/ Send(1)
    \/ \E e \in StreamErrs : SendErr(1, e)

\* The session's goroutine keeps running: a handler that can take its next
\* step takes it, and stream.Recv and stream.Send return.
SpecSessionFair ==
    Init /\ [][NextSessionFair]_vars /\ WF_vars(NextSessionFair)

(***************************************************************************)
(* Properties.                                                             *)
(***************************************************************************)
Last(q) == q[Len(q)]
LookupKinds == {FileByFilename, FileContainingSymbol, FileContainingExtension,
                AllExtensionNumbersOfType}
KnownKinds == LookupKinds \cup {ListServices}

\* The payload kinds a request of a given kind can be answered with.
AnswerTags(kind) ==
    CASE kind = AllExtensionNumbersOfType ->
            {"AllExtensionNumbersResponse", "ErrorResponse"}
      [] kind = ListServices -> {"ErrorResponse"}
      [] kind \in LookupKinds -> {"FileDescriptorResponse", "ErrorResponse"}
      [] OTHER -> {}

\* C1: within a session requests are handled one at a time and in order:
\* the responses sent are as many as the requests received or one fewer,
\* every request but the one in progress has its response before the next
\* request is read, and the i-th response answers the i-th request.
C1_OneAtATimeInOrder ==
    \A s \in Sessions :
        /\ Len(sent[s]) \in {Len(received[s]), Len(received[s]) - 1}
        /\ pc[s] = "Recv" => Len(sent[s]) = Len(received[s])
        /\ pc[s] \notin {"Recv", "Done"} =>
              /\ Len(sent[s]) = Len(received[s]) - 1
              /\ in[s] = Last(received[s])
        /\ \A i \in 1..Len(sent[s]) :
              /\ sent[s][i].OriginalRequest = received[s][i]
              /\ sent[s][i].MessageResponse.tag \in AnswerTags(received[s][i].kind)

\* The scenario of C1: a file-by-filename request that succeeds, then a
\* file-containing-symbol request for an unknown name, have been answered by
\* a descriptor response and a not-found error response, in that order.
C1_Witness ==
    \E s \in Sessions :
        /\ Len(received[s]) = 2 /\ Len(sent[s]) = 2
        /\ received[s][1].kind = FileByFilename
        /\ received[s][2].kind = FileContainingSymbol
        /\ sent[s][1].MessageResponse.tag = "FileDescriptorResponse"
        /\ sent[s][2].MessageResponse.tag = "ErrorResponse"
        /\ sent[s][2].MessageResponse.ErrorCode = NotFound

\* C2: every response, whatever its payload, echoes the host of the request
\* it answers and carries that request unchanged.
C2_EchoesCorrelationFields ==
    \A s \in Sessions :
        /\ \A i \in 1..Len(sent[s]) :
              /\ sent[s][i].ValidHost = received[s][i].host
              /\ sent[s][i].OriginalRequest = received[s][i]
        /\ pc[s] = "Send" =>
              /\ out[s].ValidHost = Last(received[s]).host
              /\ out[s].OriginalRequest = Last(received[s])

\* An error response and an extension-number response, for requests with
\* different hosts, have been sent on one session.
C2_Witness ==
    \E s \in Sessions :
        /\ Len(sent[s]) = 2
        /\ sent[s][1].ValidHost # sent[s][2].ValidHost
        /\ sent[s][1].MessageResponse.tag = "ErrorResponse"
        /\ sent[s][2].MessageResponse.tag = "AllExtensionNumbersResponse"

\* fileDescriptorForType without the cache: the descriptor of the file that
\* declares st, straight from the registry.
RegistryFileDesc(st) ==
    IF ~HasDescriptor(st)
    THEN [fd |-> NoFd, err |-> Errorf("failed to create message from type", st)]
    ELSE decodeFileDesc(Descriptor(st))

\* The error a lookup request ends with when it is resolved against the
\* registry and the service metadata alone; NoErr when it resolves.
ExpectedError(req) ==
    LET st == MessageType(req.name) IN
    CASE req.kind = FileByFilename ->
            fileDescWireFormatByFilename(req.name).err
      [] req.kind = FileContainingSymbol ->
            IF st # NoType THEN RegistryFileDesc(st).err
            ELSE SymbolFromMetadata(req.name).err
      [] req.kind = FileContainingExtension ->
            IF st = NoType THEN Errorf("unknown type", req.name)
            ELSE LET x == ExtensionType(st, req.ext) IN
                 IF x.err # NoErr THEN x.err ELSE RegistryFileDesc(x.extT).err
      [] req.kind = AllExtensionNumbersOfType ->
            IF st = NoType THEN Errorf("unknown type", req.name) ELSE NoErr
      [] OTHER -> NoErr

Open(s) == pc[s] = "Recv" /\ ret[s] = Running
Closed(s) == pc[s] = "Done" /\ ret[s] = Returned(NoErr)
Failed(s) == pc[s] = "Done" /\ ret[s].returned /\ ret[s].err # NoErr

\* Session s takes no step: it reads nothing, sends nothing, returns nothing.
Halted(s) ==
    /\ pc'[s] = pc[s] /\ ret'[s] = ret[s] /\ streamErr'[s] = streamErr[s]
    /\ received'[s] = received[s] /\ sent'[s] = sent[s]

\* Session s has just had a response accepted by its stream.
Sends(s) == Len(sent'[s]) = Len(sent[s]) + 1

\* C3: a lookup request whose resolution fails is answered by an error
\* response with the not-found code and the failure's message; only a failed
\* write leaves it unanswered; and once that response is sent the session is
\* Open again.
C3_FailedLookupIsAnswered ==
    /\ [](\A s \in Sessions :
            /\ \A i \in 1..Len(sent[s]) :
                  LET req == received[s][i] IN
                  (req.kind \in LookupKinds /\ ExpectedError(req) # NoErr) =>
                      sent[s][i].MessageResponse =
                          ErrorResponse(NotFound, ExpectedError(req))
            /\ (pc[s] = "Send" /\ ExpectedError(in[s]) # NoErr) =>
                  out[s].MessageResponse =
                      ErrorResponse(NotFound, ExpectedError(in[s]))
            /\ (/\ pc[s] = "Done"
                /\ Len(sent[s]) < Len(received[s])
                /\ Last(received[s]).kind \in LookupKinds) =>
                  streamErr[s].op = "Send")
    /\ [][\A s \in Sessions :
            (/\ Sends(s)
             /\ in[s].kind \in LookupKinds
             /\ out[s].MessageResponse.tag = "ErrorResponse") =>
                /\ sent'[s] = Append(sent[s], out[s])
                /\ Open(s)']_vars

\* A decode failure has been answered with a not-found error response and
\* the next request, whose extension is not registered, has been answered too.
C3_Witness ==
    \E s \in Sessions :
        /\ Len(sent[s]) = 2
        /\ received[s][1].kind = FileContainingSymbol
        /\ sent[s][1].MessageResponse =
              ErrorResponse(NotFound, Errorf("failed to decompress enc", ""))
        /\ received[s][2].kind = FileContainingExtension
        /\ sent[s][2].MessageResponse.tag = "ErrorResponse"
        /\ sent[s][2].MessageResponse.ErrorCode = NotFound
        /\ Open(s)

\* C4: a list-services request gets one response, an error response with
\* the unimplemented code; handling it neither calls the resolver nor
\* changes the cache; and after the response the session is Open again.
C4_ListServicesUnimplemented ==
    /\ [](\A s \in Sessions :
            /\ \A i \in 1..Len(sent[s]) :
                  received[s][i].kind = ListServices =>
                      sent[s][i].MessageResponse =
                          ErrorResponse(Unimplemented,
                                        Errorf("list_services not implemented", ""))
            /\ (pc[s] = "Send" /\ in[s].kind = ListServices) =>
                  /\ out[s].MessageResponse.tag = "ErrorResponse"
                  /\ out[s].MessageResponse.ErrorCode = Unimplemented
                  /\ ~loc[s].calledMessageType /\ ~loc[s].ranDecoder)
    /\ [][\A s \in Sessions :
            (in[s].kind = ListServices \/ in'[s].kind = ListServices) =>
                /\ UNCHANGED cache
                /\ Len(sent'[s]) <= Len(sent[s]) + 1
                /\ Sends(s) => Open(s)']_vars

\* A list-services request has been answered and the request after it has
\* been answered with a descriptor.
C4_Witness ==
    \E s \in Sessions :
        /\ Len(sent[s]) = 2
        /\ received[s][1].kind = ListServices
        /\ sent[s][1].MessageResponse.ErrorCode = Unimplemented
        /\ sent[s][2].MessageResponse.tag = "FileDescriptorResponse"

\* C5: a request of none of the five kinds ends the session at once with an
\* invalid-argument error: it gets no response, and nothing is read or sent
\* on the session afterwards.
C5_UnknownKindEndsSession ==
    /\ [](\A s \in Sessions :
            /\ \A i \in 1..(Len(received[s]) - 1) :
                  received[s][i].kind \in KnownKinds
            /\ (Len(received[s]) > 0 /\ Last(received[s]).kind \notin KnownKinds) =>
                  /\ pc[s] \in {"invalid", "Done"}
                  /\ Len(sent[s]) = Len(received[s]) - 1
                  /\ pc[s] = "Done" =>
                        /\ Failed(s)
                        /\ ret[s].err = RpcErrorf(InvalidArgument,
                                                  "invalid MessageRequest",
                                                  Last(received[s]).kind))
    /\ [][\A s \in Sessions :
            (pc[s] = "Done" /\ Len(received[s]) > 0
                /\ Last(received[s]).kind \notin KnownKinds) => Halted(s)]_vars

\* A session has answered one request and then ended on a request of
\* unknown kind.
C5_Witness ==
    \E s \in Sessions :
        /\ Len(received[s]) = 2 /\ Len(sent[s]) = 1
        /\ received[s][2].kind = NoKind
        /\ Failed(s)
        /\ ret[s].err.code = InvalidArgument

\* C6: besides a protocol violation the loop ends only on end-of-input
\* (Closed, nil returned), on another read error (Failed with that error) or
\* on a write error (Failed with that error, the response not sent); a
\* session that has ended reads and sends nothing more.
C6_LoopTermination ==
    /\ [](\A s \in Sessions :
            /\ ret[s].returned <=> pc[s] = "Done"
            /\ streamErr[s].op # "" => pc[s] = "Done"
            /\ pc[s] = "Done" =>
                  CASE streamErr[s].op = "Recv" /\ streamErr[s].err = EOF ->
                          Closed(s) /\ Len(sent[s]) = Len(received[s])
                    [] streamErr[s].op = "Recv" /\ streamErr[s].err # EOF ->
                          /\ Failed(s) /\ ret[s].err = streamErr[s].err
                          /\ Len(sent[s]) = Len(received[s])
                    [] streamErr[s].op = "Send" ->
                          /\ Failed(s) /\ ret[s].err = streamErr[s].err
                          /\ Len(sent[s]) = Len(received[s]) - 1
                    [] OTHER ->
                          /\ Failed(s) /\ ret[s].err.code = InvalidArgument
                          /\ Last(received[s]).kind \notin KnownKinds)
    /\ [][\A s \in Sessions : pc[s] = "Done" => Halted(s)]_vars

\* A session has answered one request and failed on the write of its second
\* response.
C6_Witness ==
    \E s \in Sessions :
        /\ Len(received[s]) = 2 /\ Len(sent[s]) = 1
        /\ streamErr[s] = [op |-> "Send", err |-> TransportError("Unavailable")]
        /\ Failed(s)
        /\ ret[s].err = TransportError("Unavailable")

\* The type names the registry knows.
TypeNames == {"pkg.T", "pkg.E", "pkg.B", "pkg.M"}

\* Session s is resolving a type name that missed the cache.
Inserting(s) ==
    /\ pc[s] \notin {"Recv", "Done"}
    /\ in[s].kind \in {FileContainingSymbol, FileContainingExtension,
                       AllExtensionNumbersOfType}
    /\ loc[s].missed

\* C7: once a type name has been resolved to a descriptor, every later
\* resolution of it, on any session, returns the same content and takes it
\* from the cache: proto.MessageType is not called and the decoder does not
\* run.
C7_SecondResolutionFromCache ==
    /\ \A n \in TypeNames : Cardinality(Resolved(n)) <= 1
    /\ \A s \in Sessions :
          loc[s].prior # {} =>
              /\ ~loc[s].calledMessageType
              /\ ~loc[s].ranDecoder
              /\ pc[s] = "Send" =>
                    /\ out[s].MessageResponse.tag = "FileDescriptorResponse"
                    /\ out[s].MessageResponse.FileDescriptorProto[1] \in loc[s].prior

\* A resolution of a type name that had been resolved before has completed.
C7_Witness ==
    \E s \in Sessions :
        /\ pc[s] = "Send"
        /\ loc[s].prior # {}
        /\ out[s].MessageResponse.tag = "FileDescriptorResponse"

\* Every entry of m is an entry of n.
Extends(n, m) == \A k \in DOMAIN m : k \in DOMAIN n /\ n[k] = m[k]

\* C8: the cache is append-only: a key once present in one of the three
\* maps stays present with the value it had.
C8_CacheAppendOnly ==
    [][/\ Extends(typeToNameMap', typeToNameMap)
       /\ Extends(nameToTypeMap', nameToTypeMap)
       /\ Extends(typeToFileDescMap', typeToFileDescMap)]_vars

\* Two requests have been answered, the three maps are filled,
\* typeToFileDescMap holds two types, and an entry was stored again on the way
\* (typeForName stores the descriptor fileDescForType has just cached).
C8_Witness ==
    /\ DOMAIN typeToFileDescMap = {"T", "E"}
    /\ DOMAIN nameToTypeMap = {"pkg.T"}
    /\ DOMAIN typeToNameMap = {"T"}
    /\ \E s \in Sessions : Len(sent[s]) = 2

\* C9: accesses to a shared cache map are mutually exclusive: no two
\* sessions are ever about to access the same map with one of them writing.
C9_MapAccessExclusive ==
    \A s, t \in Sessions : ~Conflict(s, t)

\* What a single resolution of type name n leaves in the cache.
StoredAlone(n) ==
    LET st == MessageType(n) IN
    /\ n \in DOMAIN nameToTypeMap /\ nameToTypeMap[n] = st
    /\ st \in DOMAIN typeToNameMap /\ typeToNameMap[st] = n
    /\ IF RegistryFileDesc(st).err = NoErr
       THEN /\ st \in DOMAIN typeToFileDescMap
            /\ typeToFileDescMap[st] = RegistryFileDesc(st).fd
       ELSE st \notin DOMAIN typeToFileDescMap

\* C10: two sessions that insert the same type name concurrently both
\* return, with the same type and the same descriptor, and leave in the cache
\* what one resolution alone would have stored.
C10_InsertRaceConsistent ==
    \A s, t \in Sessions :
        (s # t /\ Inserting(s) /\ Inserting(t) /\ in[s].name = in[t].name) =>
            /\ ~fatal
            /\ (pc[s] = "Send" /\ pc[t] = "Send" /\ in[s] = in[t]) =>
                  /\ loc[s].st = loc[t].st
                  /\ in[s].kind # AllExtensionNumbersOfType =>
                        out[s].MessageResponse = out[t].MessageResponse
                  /\ StoredAlone(in[s].name)

\* The payload a symbol request for name gets from the metadata store alone.
MetadataAnswer(name) ==
    LET meta == Metadata(name)
        d == decodeFileDesc(meta.enc)
    IN  IF ~(meta.present /\ meta.isBytes)
        THEN ErrorResponse(NotFound, Errorf("unknown symbol", name))
        ELSE IF d.err # NoErr THEN ErrorResponse(NotFound, d.err)
        ELSE FileDescriptorResponse(Marshal(d.fd))

\* The payload a symbol request for type st gets from the type's descriptor.
TypeAnswer(st) ==
    LET r == RegistryFileDesc(st) IN
    IF r.err # NoErr THEN ErrorResponse(NotFound, r.err)
    ELSE FileDescriptorResponse(Marshal(r.fd))

\* C11 as stated: a symbol is answered from its type's descriptor when the
\* name resolves as a type name and yields a descriptor; whenever that
\* fails, the metadata store is queried and answers.
C11_FallbackWheneverTypePathFails ==
    \A s \in Sessions :
        (pc[s] = "Send" /\ in[s].kind = FileContainingSymbol) =>
            LET st == MessageType(in[s].name) IN
            IF st # NoType /\ RegistryFileDesc(st).err = NoErr
            THEN /\ out[s].MessageResponse = TypeAnswer(st)
                 /\ ~loc[s].calledMetadata
            ELSE /\ loc[s].calledMetadata
                 /\ out[s].MessageResponse = MetadataAnswer(in[s].name)

\* C11 (amended): a symbol is first looked up as a type name.  When the name
\* is a registered type name the answer comes from that type's descriptor,
\* or is the error of obtaining it, and the metadata store is not consulted,
\* even if it has an entry for the name.  Only when the name is no
\* registered type name is the store queried; a blob found there is decoded
\* and returned, and "unknown symbol" is the answer when the store has no
\* blob for the name.
C11_SymbolTypeFirst ==
    \A s \in Sessions :
        (pc[s] = "Send" /\ in[s].kind = FileContainingSymbol) =>
            LET st == MessageType(in[s].name) IN
            IF st # NoType
            THEN /\ out[s].MessageResponse = TypeAnswer(st)
                 /\ ~loc[s].calledMetadata
            ELSE /\ loc[s].calledMetadata
                 /\ out[s].MessageResponse = MetadataAnswer(in[s].name)
                 /\ (out[s].MessageResponse.tag = "ErrorResponse"
                        /\ out[s].MessageResponse.ErrorMessage.msg = "unknown symbol")
                    <=> ~(Metadata(in[s].name).present
                            /\ Metadata(in[s].name).isBytes)

\* A symbol that is no type name has been answered from the blob of the
\* metadata store.
C11_Witness ==
    \E s \in Sessions :
        /\ pc[s] = "Send"
        /\ in[s].kind = FileContainingSymbol
        /\ in[s].name = "pkg.Svc"
        /\ loc[s].calledMetadata
        /\ out[s].MessageResponse = FileDescriptorResponse(<<"wire", "s.proto">>)

\* The types registered as the value of some extension.
ExtensionTypes ==
    UNION {{RegisteredExtensions(st)[id] : id \in DOMAIN RegisteredExtensions(st)} :
           st \in Types}

\* An extension request for a registered type and a number that is not among
\* the type's registered extensions.
UnregisteredExtension(req) ==
    /\ req.kind = FileContainingExtension
    /\ MessageType(req.name) # NoType
    /\ req.ext \notin DOMAIN RegisteredExtensions(MessageType(req.name))

\* An extension request for a registered type and one of its extension numbers.
RegisteredExtension(req) ==
    /\ req.kind = FileContainingExtension
    /\ MessageType(req.name) # NoType
    /\ req.ext \in DOMAIN RegisteredExtensions(MessageType(req.name))

C12_Answers ==
    \A s \in Sessions :
        pc[s] = "Send" =>
            /\ UnregisteredExtension(in[s]) =>
                   out[s].MessageResponse =
                       ErrorResponse(NotFound,
                           Errorf("failed to find registered extension for extension number",
                                  ToString(in[s].ext)))
            /\ RegisteredExtension(in[s]) =>
                   out[s].MessageResponse =
                       TypeAnswer(RegisteredExtensions(MessageType(in[s].name))[in[s].ext])

C12_NoExtensionTypeCached ==
    \A s \in Sessions :
        UnregisteredExtension(in[s]) =>
            \A t \in ExtensionTypes :
                t \in DOMAIN typeToFileDescMap' <=> t \in DOMAIN typeToFileDescMap

Numbers(q) == {q[i] : i \in DOMAIN q}

\* C13: an all-extension-numbers request for a registered type is answered
\* with an extension-number response, never an error response, whose base
\* type name is the requested name and whose numbers are exactly the
\* extension numbers registered for the type, each once; for a type with no
\* registered extension the collection is empty.
C13_AllExtensionNumbersExact ==
    \A s \in Sessions :
        (/\ pc[s] = "Send"
         /\ in[s].kind = AllExtensionNumbersOfType
         /\ MessageType(in[s].name) # NoType) =>
            LET resp == out[s].MessageResponse
                exts == DOMAIN RegisteredExtensions(MessageType(in[s].name))
            IN  /\ resp.tag = "AllExtensionNumbersResponse"
                /\ resp.BaseTypeName = in[s].name
                /\ Numbers(resp.ExtensionNumber) = exts
                /\ Len(resp.ExtensionNumber) = Cardinality(exts)
                /\ exts = {} => resp.ExtensionNumber = <<>>

\* The numbers of pkg.T have been sent as 7 then 5, and the request for
\* pkg.E, which has no extensions, is answered with an empty collection.
C13_Witness ==
    /\ Len(sent[1]) = 1
    /\ sent[1][1].MessageResponse = AllExtensionNumbersResponse("pkg.T", <<7, 5>>)
    /\ pc[1] = "Send"
    /\ in[1].kind = AllExtensionNumbersOfType
    /\ in[1].name = "pkg.E"
    /\ out[1].MessageResponse = AllExtensionNumbersResponse("pkg.E", <<>>)

FileKinds == {FileByFilename, FileContainingSymbol, FileContainingExtension}

\* resp is the one payload that answers req: a single wire-encoded
\* descriptor for a file lookup that resolves, the extension numbers for an
\* all-extension-numbers lookup that resolves, an error otherwise.
OnePayload(req, resp) ==
    /\ resp.tag \in {"FileDescriptorResponse", "AllExtensionNumbersResponse",
                     "ErrorResponse"}
    /\ IF req.kind \in FileKinds /\ ExpectedError(req) = NoErr
       THEN /\ resp.tag = "FileDescriptorResponse"
            /\ Len(resp.FileDescriptorProto) = 1
            /\ resp.FileDescriptorProto[1] # NoBytes
            /\ resp.FileDescriptorProto[1][1] = "wire"
       ELSE IF req.kind = AllExtensionNumbersOfType /\ ExpectedError(req) = NoErr
       THEN resp.tag = "AllExtensionNumbersResponse"
       ELSE /\ resp.tag = "ErrorResponse"
            /\ resp.ErrorMessage # NoErr

\* C14: every response, sent or about to be sent, carries exactly one
\* payload fixed by the request kind and the outcome: one wire-encoded
\* descriptor for a successful file lookup, an extension-number response for
\* a successful all-extension-numbers lookup, an error response for every
\* other answered request; none is without payload or holds an empty
\* descriptor collection.
C14_OnePayloadPerResponse ==
    \A s \in Sessions :
        /\ \A i \in 1..Len(sent[s]) :
              OnePayload(received[s][i], sent[s][i].MessageResponse)
        /\ pc[s] = "Send" => OnePayload(in[s], out[s].MessageResponse)

\* A descriptor response with one descriptor has been sent and an
\* extension-number response is about to be.
C14_Witness ==
    /\ Len(sent[1]) = 1
    /\ received[1][1].kind \in FileKinds
    /\ sent[1][1].MessageResponse.tag = "FileDescriptorResponse"
    /\ Len(sent[1][1].MessageResponse.FileDescriptorProto) = 1
    /\ pc[1] = "Send"
    /\ out[1].MessageResponse.tag = "AllExtensionNumbersResponse"

C15_Resolve ==
    \A s \in Sessions :
        (/\ pc[s] = "tfnCheck"
         /\ pc'[s] # "tfnCheck"
         /\ in[s].name \notin DOMAIN nameToTypeMap) =>
            IF in[s].name \notin TypeNames
            THEN /\ loc'[s].tfnErr = Errorf("unknown type", in[s].name)
                 /\ cache' = cache
                 /\ in[s].kind \in {FileContainingExtension, AllExtensionNumbersOfType} =>
                        /\ pc'[s] = "Send"
                        /\ out'[s].MessageResponse =
                               ErrorResponse(NotFound,
                                             Errorf("unknown type", in[s].name))
            ELSE /\ loc'[s].tfnErr = NoErr
                 /\ loc'[s].calledMessageType
                 /\ pc'[s] = "tfnPutTypeToName"

\* C15: resolving a name that misses nameToTypeMap and is unknown to the
\* protobuf registry fails with the error "unknown type" and changes none of
\* the three cache maps; a miss of a name the registry knows reports no
\* error and goes on with the type the registry returned.
C15_UnknownTypeNoCacheChange ==
    [][C15_Resolve]_vars

\* With pkg.T cached by an earlier request, resolving the unknown name
\* "none" has failed with "unknown type".
C15_Witness ==
    /\ Len(sent[1]) = 1
    /\ "pkg.T" \in DOMAIN nameToTypeMap
    /\ pc[1] = "Send"
    /\ in[1].name = "none"
    /\ loc[1].missed
    /\ loc[1].tfnErr = Errorf("unknown type", "none")

\* The types whose encoded descriptor does not decode: b.proto does not
\* decompress, m.proto decompresses to malformed content.
UndecodableTypes == {"B", "M"}

C16_NeverCached ==
    /\ \A t \in UndecodableTypes : t \notin DOMAIN typeToFileDescMap
    /\ \A s \in Sessions :
          (/\ pc[s] = "Send"
           /\ in[s].kind = FileContainingSymbol
           /\ in[s].name \in {"pkg.B", "pkg.M"}) =>
              /\ loc[s].ranDecoder
              /\ loc[s].fd = NoFd
              /\ out[s].MessageResponse.tag = "ErrorResponse"
              /\ out[s].MessageResponse.ErrorMessage.msg
                     \in {"failed to decompress enc", "bad descriptor"}

C16_DecodeFails ==
    \A s \in Sessions :
        (/\ pc[s] = "fdtCheck"
         /\ pc'[s] # "fdtCheck"
         /\ loc[s].fdtArg \in UndecodableTypes) =>
            /\ loc'[s].ranDecoder
            /\ loc'[s].fd = NoFd
            /\ cache' = cache
            /\ pc'[s] # "fdtPut"

\* C16: when the encoded descriptor of a type fails to decode, because it
\* does not decompress or its content is malformed, fileDescForType returns
\* an error and no descriptor, typeToFileDescMap never gets an entry for the
\* type, and every later resolution of the type runs the decoder again.
C16_DecodeFailureNotCached ==
    []C16_NeverCached /\ [][C16_DecodeFails]_vars

\* pkg.B has been answered with an error, and the second request for it has
\* run the decoder again and failed again.
C16_Witness ==
    /\ Len(sent[1]) = 1
    /\ received[1][1].name = "pkg.B"
    /\ sent[1][1].MessageResponse.tag = "ErrorResponse"
    /\ "pkg.B" \in DOMAIN nameToTypeMap
    /\ pc[1] = "Send"
    /\ in[1].name = "pkg.B"
    /\ loc[1].ranDecoder
    /\ ~loc[1].missed
    /\ out[1].MessageResponse =
           ErrorResponse(NotFound, Errorf("failed to decompress enc", ""))

\* f and g are inverse functions of each other.
Inverses(f, g) ==
    /\ \A k \in DOMAIN f : f[k] \in DOMAIN g /\ g[f[k]] = k
    /\ \A k \in DOMAIN g : g[k] \in DOMAIN f /\ f[g[k]] = k

\* C17: in every state of a session that handles its requests one after
\* another, except while typeForName is between its two map writes,
\* nameToTypeMap[n] = t if and only if typeToNameMap[t] = n, so each cached
\* name has one type and each cached type one name.
C17_NameTypeMapsInverse ==
    (\A s \in Sessions : pc[s] # "tfnPutNameToType") =>
        Inverses(nameToTypeMap, typeToNameMap)

\* Two requests have been answered and two names are cached, each map the
\* inverse of the other.
C17_Witness ==
    /\ pc[1] = "Recv"
    /\ Len(sent[1]) = 2
    /\ Cardinality(DOMAIN nameToTypeMap) = 2
    /\ Cardinality(DOMAIN typeToNameMap) = 2
    /\ "pkg.T" \in DOMAIN nameToTypeMap
    /\ "T" \in DOMAIN typeToNameMap
    /\ nameToTypeMap["pkg.T"] = "T"
    /\ typeToNameMap["T"] = "pkg.T"

\* C18: in every reachable state the descriptor cached for a type in
\* typeToFileDescMap is the one obtained by decoding the encoded descriptor
\* the registry supplies for that type, whether the entry was inserted by a
\* type-name resolution, a symbol lookup or an extension lookup.
C18_FileDescCacheCoherent ==
    \A t \in DOMAIN typeToFileDescMap :
        /\ HasDescriptor(t)
        /\ RegistryFileDesc(t).err = NoErr
        /\ typeToFileDescMap[t] = RegistryFileDesc(t).fd

\* The cache holds the descriptor of T, inserted through a type name, and
\* that of E, inserted through an extension lookup.
C18_Witness ==
    /\ DOMAIN typeToFileDescMap = {"T", "E"}
    /\ typeToFileDescMap["T"] = <<"FileDescriptorProto", "t.proto">>
    /\ typeToFileDescMap["E"] = <<"FileDescriptorProto", "e.proto">>

\* req is answered without the type caches: a file-by-filename request, or
\* a symbol request for a name that is no type name and so goes to the
\* service-metadata store.
BypassesCache(req) ==
    \/ req.kind = FileByFilename
    \/ req.kind = FileContainingSymbol /\ req.name \notin TypeNames

C19_Frame ==
    \A s \in Sessions : BypassesCache(in[s]) => cache' = cache

C19_NoEntryUsed ==
    \A s \in Sessions :
        /\ in[s].kind = FileByFilename =>
              /\ pc[s] \in {"byFilename", "Send"}
              /\ pc[s] = "Send" =>
                    loc[s].ranDecoder = (in[s].name \in {"t.proto", "b.proto", "m.proto"})
        /\ (in[s].kind = FileContainingSymbol /\ in[s].name \notin TypeNames) =>
              /\ pc[s] \in {"tfnCheck", "Send"}
              /\ in[s].name \notin DOMAIN nameToTypeMap
              /\ pc[s] = "Send" =>
                    /\ loc[s].calledMetadata
                    /\ loc[s].ranDecoder = (in[s].name = "pkg.Svc")
                    /\ loc[s].fd = NoFd

\* C19: a file-by-filename request, successful or not, and a symbol request
\* answered through the service-metadata store leave typeToNameMap,
\* nameToTypeMap and typeToFileDescMap unchanged; they decode on every call,
\* take no descriptor from the maps and insert none.
C19_BypassLeavesCacheUnchanged ==
    []C19_NoEntryUsed /\ [][C19_Frame]_vars

\* t.proto was served by file name, is asked for again and decoded again,
\* and the three maps are still empty.
C19_Witness ==
    /\ Len(sent[1]) = 1
    /\ received[1][1].kind = FileByFilename
    /\ sent[1][1].MessageResponse = FileDescriptorResponse(<<"wire", "t.proto">>)
    /\ pc[1] = "Send"
    /\ in[1].kind = FileByFilename
    /\ loc[1].ranDecoder
    /\ out[1].MessageResponse = FileDescriptorResponse(<<"wire", "t.proto">>)
    /\ typeToNameMap = EmptyMap
    /\ nameToTypeMap = EmptyMap
    /\ typeToFileDescMap = EmptyMap

\* The stream never fails: stream.Recv returns a request or io.EOF, and
\* stream.Send returns nil.
NoTransportError == streamErr[1].err \in {NoErr, EOF}

\* Every request delivered so far is of a kind the switch has a case for.
RecognizedKinds ==
    \A i \in 1..Len(received[1]) : received[1][i].kind \in KnownKinds

\* C20: when the session loop keeps running, every request received is
\* followed by its response being sent or by the session ending; and when
\* the stream delivers requests of recognized kinds and then end-of-input,
\* with no transport error, the session ends Closed with as many responses
\* sent as requests received.
C20_AnsweredOrEnded ==
    /\ \A n \in 1..MaxReqs :
          (Len(received[1]) = n) ~> (Len(sent[1]) = n \/ pc[1] = "Done")
    /\ ([]NoTransportError /\ []RecognizedKinds) =>
          <>[](Closed(1) /\ Len(sent[1]) = Len(received[1]))

\* The session has received and answered as many requests as the stream
\* delivers and returned nil on end-of-input.
C20_Witness ==
    /\ Closed(1)
    /\ streamErr[1] = [op |-> "Recv", err |-> EOF]
    /\ Len(received[1]) = MaxReqs
    /\ Len(sent[1]) = MaxReqs

====
